---- MODULE Spec2Model ----
(***************************************************************************)
(* Model of the sniffer terminal application: the interactive main loop    *)
(* (src/main.rs), the page router (src/app.rs), the capture session page   *)
(* (src/pages/sniffer.rs) with its capture worker thread and ingestion     *)
(* channel, the filter dialog (src/pages/filter.rs), the device picker     *)
(* (src/pages/device.rs), the home menu (src/pages/home.rs) and the detail *)
(* viewer (src/pages/detail.rs).                                           *)
(*                                                                         *)
(* Option<T> is modelled as a sequence: <<>> is None, <<v>> is Some(v).    *)
(* A String is modelled as the sequence of its UTF-8 bytes, one token per  *)
(* byte; a two-byte character is a lead token followed by a continuation   *)
(* token.                                                                  *)
(***************************************************************************)
EXTENDS Integers, Sequences, FiniteSets, TLC

\* ------------------------------------------------------------------ bounds
\* number of threads the process can hold at once besides main
MaxWorkers == 2
\* number of frames one worker reads before the model stops feeding it
MaxFrames == 2
\* longest custom filter text (in bytes) the model types
MaxText == 1
\* the longest packet list of the list view
MaxList == 50
\* the longest filter text, in bytes, typed in the text editing view
MaxEdit == 4
\* ------------------------------------------------------- program constants
\* select_packet / scroll wheel: "approximate visible area"
PageRows == 20
\* scroll wheel step
WheelStep == 3
\* rows of the list area taken by the two borders and the column header
ListChrome == 3
\* rows of the terminal below the list area: status box (3) + help line (1)
BelowList == 4
\* the fixed click area used by SnifferPage::handle_events
ClickAreaSize == 100
\* detail viewer: bytes per hex row and the embedded page size
BytesPerLine == 16
HexPage == 10
\* PacketDetailsPage::render: the rows of the packet info and of the help line
DetailInfoRows == 8
DetailHelpRows == 1
\* render_hex_viewer: the rows of the hex area taken by borders and header
HexChrome == 3

None == <<>>
Some(v) == <<v>>
IsSome(o) == o # <<>>
Unwrap(o) == o[1]

Min(a, b) == IF a < b THEN a ELSE b
\* usize::saturating_sub
SatSub(a, b) == IF a > b THEN a - b ELSE 0

\* ------------------------------------------------------------ environment
\* terminal heights the renderer is run with
TermHeights == {24}
\* the frames the capture library can deliver (identified by their bytes):
\* "arp4" is an ARP frame whose hardware addresses are 4 bytes long
Frames == {"f40", "arp4"}
FrameLen(f) ==
    IF f = "f40" THEN 40
    ELSE IF f = "arp4" THEN 38
    ELSE IF f = "f176" THEN 176
    ELSE IF f = "f400" THEN 400
    ELSE 200
\* results of Device::list(): an error, or an ordered list of device names
ListError == <<"<error>">>
DeviceLists == {<<>>, <<"eth0">>, <<"eth0", "lo">>}
\* outcomes of Capture::from_device(..).open()
OpenOutcomes == {"ok", "error"}
\* outcomes of cap.filter(text, true)
FilterOutcomes == {"ok", "rejected"}

\* bytes the user can type into the custom filter: an ASCII letter and the
\* two bytes of a two-byte character
AsciiChars == {"t", "c"}
WideChars == {"e2"}
Lead(c) == <<c, "lead">>
Cont(c) == <<c, "cont">>
Ascii(c) == <<c, "ascii">>
\* String::is_char_boundary
IsCharBoundary(text, idx) ==
    \/ idx = 0
    \/ idx = Len(text)
    \/ idx < Len(text) /\ text[idx + 1][2] # "cont"
\* the bytes of one character
CharBytes(c) == IF c \in WideChars THEN <<Lead(c), Cont(c)>> ELSE <<Ascii(c)>>

RECURSIVE AsciiText(_)
AsciiText(s) == IF s = <<>> THEN <<>> ELSE <<Ascii(Head(s))>> \o AsciiText(Tail(s))

\* FilterDialog::get_filter_presets
get_filter_presets ==
    << [name |-> "TCP Traffic",   filter |-> AsciiText(<<"t","c","p">>)],
       [name |-> "UDP Traffic",   filter |-> AsciiText(<<"u","d","p">>)],
       [name |-> "HTTP Traffic",
        filter |-> AsciiText(<<"t","c","p"," ","p","o","r","t"," ","8","0"," ",
                               "o","r"," ","t","c","p"," ","p","o","r","t"," ",
                               "8","0","8","0">>)],
       [name |-> "HTTPS Traffic",
        filter |-> AsciiText(<<"t","c","p"," ","p","o","r","t"," ","4","4","3">>)],
       [name |-> "DNS Traffic",
        filter |-> AsciiText(<<"u","d","p"," ","p","o","r","t"," ","5","3"," ",
                               "o","r"," ","t","c","p"," ","p","o","r","t"," ",
                               "5","3">>)],
       [name |-> "SSH Traffic",
        filter |-> AsciiText(<<"t","c","p"," ","p","o","r","t"," ","2","2">>)],
       [name |-> "FTP Traffic",
        filter |-> AsciiText(<<"t","c","p"," ","p","o","r","t"," ","2","1"," ",
                               "o","r"," ","t","c","p"," ","p","o","r","t"," ",
                               "2","0">>)],
       [name |-> "ICMP Traffic",  filter |-> AsciiText(<<"i","c","m","p">>)],
       [name |-> "ARP Traffic",   filter |-> AsciiText(<<"a","r","p">>)],
       [name |-> "IPv6 Traffic",  filter |-> AsciiText(<<"i","p","6">>)],
       [name |-> "Broadcast",
        filter |-> AsciiText(<<"b","r","o","a","d","c","a","s","t">>)],
       [name |-> "Multicast",
        filter |-> AsciiText(<<"m","u","l","t","i","c","a","s","t">>)],
       [name |-> "Large Packets",
        filter |-> AsciiText(<<"g","r","e","a","t","e","r"," ","1","0","0","0">>)],
       [name |-> "Small Packets",
        filter |-> AsciiText(<<"l","e","s","s"," ","1","0","0">>)],
       [name |-> "Clear Filter",  filter |-> <<>>] >>

\* ---------------------------------------------------------------- actions
\* enum Action, with one field per payload type
Act(type, name, text, index) ==
    [type |-> type, name |-> name, text |-> text, index |-> index]
NavigateToHome == Act("NavigateToHome", "", <<>>, 0)
NavigateToDevice == Act("NavigateToDevice", "", <<>>, 0)
NavigateToSniffer == Act("NavigateToSniffer", "", <<>>, 0)
Quit == Act("Quit", "", <<>>, 0)
Handled == Act("Handled", "", <<>>, 0)
DeviceSelected(n) == Act("DeviceSelected", n, <<>>, 0)
ApplyFilter(t) == Act("ApplyFilter", "", t, 0)
PacketSelected(i) == Act("PacketSelected", "", <<>>, i)

\* the status line texts, with the values formatted into them
Status(kind, dev, n, text) == [kind |-> kind, dev |-> dev, n |-> n, text |-> text]

\* the length of the slices arp.sender_hw_addr() and arp.target_hw_addr() of
\* a frame the slicing library reports as ARP (None: the frame is not ARP)
ArpHwAddrLen(data) == IF data = "arp4" THEN Some(4) ELSE None

\* data::packet::parse_packet panics: the ARP arm reads bytes [0] to [5] of
\* both hardware addresses without looking at their length
parse_packet_panics(data) ==
    /\ IsSome(ArpHwAddrLen(data))
    /\ Unwrap(ArpHwAddrLen(data)) < 6

\* data::packet::parse_packet: the record built from one frame, when it
\* returns
parse_packet(id, data) == [id |-> id, data |-> data, length |-> FrameLen(data)]

VARIABLES
    main_pc,            \* position of main's loop
    main_result,        \* "running", or how main ended
    app,                \* App: should_quit, current_page
    action_q,           \* the action channel (action_tx / action_rx)
    home_page,          \* HomePage
    device_page,        \* DevicePage
    sniffer,            \* SnifferPage
    filter_dialog,      \* SnifferPage::filter_dialog
    details,            \* PacketDetailsPage
    stop_capture_flag,  \* the Arc<AtomicBool> shared with the workers
    workers,            \* the capture threads: each slot's loop position
    chan                \* the ingestion channel of each worker

vars == <<main_pc, main_result, app, action_q, home_page, device_page, sniffer,
          filter_dialog, details, stop_capture_flag, workers, chan>>

WorkerIds == 1..MaxWorkers

\* a thread slot with no thread in it
NoWorker == [pc |-> "none", packet_id |-> 0]
\* a thread that has ended (its closure returned or panicked) and that has
\* not been joined
WorkerDone == [pc |-> "done", packet_id |-> 0]

\* ------------------------------------------------------------- initial state
\* SnifferPage::default
SnifferDefault ==
    [ device_name |-> None,
      packets |-> <<>>,
      is_capturing |-> FALSE,
      status_message |-> Status("no_device_D", "", 0, <<>>),
      packet_count |-> 0,
      scroll_position |-> 0,
      following |-> FALSE,
      current_filter |-> None,
      packet_rx |-> None,
      capture_thread_handle |-> None,
      selected_packet |-> None ]

\* FilterDialog::default
FilterDialogDefault ==
    [ is_open |-> FALSE,
      filter_text |-> <<>>,
      cursor_position |-> 0,
      selected_preset |-> 0,
      mode |-> "CustomInput" ]

\* DevicePage::default
DevicePageDefault ==
    [ devices |-> <<>>,
      list_state |-> None,
      selected_device |-> None,
      status_message |-> Status("", "", 0, <<>>),
      mouse_event |-> None ]

\* DevicePage::load_devices, given the result of Device::list()
load_devices(dp, listing) ==
    IF listing = ListError
    THEN [dp EXCEPT !.status_message = Status("list_failed", "", 0, <<>>)]
    ELSE IF listing = <<>>
    THEN [dp EXCEPT !.status_message = Status("none_found", "", 0, <<>>)]
    ELSE [dp EXCEPT !.status_message = Status("found_nav", "", Len(listing), <<>>),
                    !.devices = listing,
                    !.list_state = Some(1)]

\* HomePage::new
HomePageNew == [list_state |-> Some(1), mouse_event |-> None]

\* PacketDetailsPage::default
DetailsDefault == [packet |-> None, hex_scroll |-> 0]

\* App::new followed by App::run (which registers the action handlers and so
\* loads the device list once)
Init ==
    /\ main_pc = "poll"
    /\ main_result = "running"
    /\ app = [should_quit |-> FALSE, current_page |-> "Home"]
    /\ action_q = <<>>
    /\ home_page = HomePageNew
    /\ \E listing \in DeviceLists \cup {ListError} :
          device_page = load_devices(DevicePageDefault, listing)
    /\ sniffer = SnifferDefault
    /\ filter_dialog = FilterDialogDefault
    /\ details = DetailsDefault
    /\ stop_capture_flag = FALSE
    /\ workers = [w \in WorkerIds |-> NoWorker]
    /\ chan = [w \in WorkerIds |-> <<>>]

\* ------------------------------------------------------------ the worker
\* a worker thread exists and has not returned from its closure
Alive(w) == workers[w].pc \in {"check", "read"}
AliveWorkers == {w \in WorkerIds : Alive(w)}
\* the slots that hold a thread, running or ended and not yet joined
Spawned == {w \in WorkerIds : workers[w].pc # "none"}

\* the receiving end of channel c still exists
ReceiverExists(sn, c) == sn.packet_rx = Some(c)

\* a worker that never sees the flag set
WorkerSeesStop_Never(flag) == FALSE

\* `while !stop_flag.load(Relaxed)`: the loop condition
WorkerSeesStop(flag) == flag

\* one evaluation of the loop condition by worker w
WorkerCheck(w) ==
    /\ main_result = "running"
    /\ workers[w].pc = "check"
    /\ workers' = [workers EXCEPT ![w] =
                      IF WorkerSeesStop(stop_capture_flag)
                      THEN WorkerDone ELSE [@ EXCEPT !.pc = "read"]]
    /\ UNCHANGED <<main_pc, main_result, app, action_q, home_page, device_page,
                   sniffer, filter_dialog, details, stop_capture_flag, chan>>

\* a worker that gives every frame the id of its first one
NextPacketId_Same(packet_id) == IF packet_id = 0 THEN 1 ELSE packet_id

\* the id the worker gives the frame it has just read
NextPacketId(packet_id) == packet_id + 1

\* cap.next_packet() returned Err (the read timed out): nothing is sent
WorkerTimeout(w) ==
    /\ main_result = "running"
    /\ workers[w].pc = "read"
    /\ workers' = [workers EXCEPT ![w].pc = "check"]
    /\ UNCHANGED <<main_pc, main_result, app, action_q, home_page, device_page,
                   sniffer, filter_dialog, details, stop_capture_flag, chan>>

\* cap.next_packet() returned a frame: number it, parse it, send it; a panic
\* in parse_packet unwinds the thread, which ends without a send
WorkerFrame(w) ==
    /\ main_result = "running"
    /\ workers[w].pc = "read"
    /\ workers[w].packet_id < MaxFrames
    /\ \E data \in Frames :
          LET id == NextPacketId(workers[w].packet_id)
              packet_info == parse_packet(id, data)
          IN  IF parse_packet_panics(data)
              THEN /\ workers' = [workers EXCEPT ![w] = WorkerDone]
                   /\ UNCHANGED chan
              ELSE IF ReceiverExists(sniffer, w)
              THEN /\ chan' = [chan EXCEPT ![w] = Append(@, packet_info)]
                   /\ workers' = [workers EXCEPT ![w] =
                                     [pc |-> "check", packet_id |-> id]]
              ELSE /\ workers' = [workers EXCEPT ![w] = WorkerDone]
                   /\ UNCHANGED chan
    /\ UNCHANGED <<main_pc, main_result, app, action_q, home_page, device_page,
                   sniffer, filter_dialog, details, stop_capture_flag>>

\* ------------------------------------------------- SnifferPage operations
\* SnifferPage::set_device
set_device(sn, device_name) ==
    [sn EXCEPT !.device_name = Some(device_name),
               !.status_message = Status("device_set", device_name, 0, <<>>)]

\* start_capture: Device::list() failed, the device is not listed, or the
\* capture could not be opened
StartFails(device_name, listing, open) ==
    \/ listing = ListError
    \/ \A i \in 1..Len(listing) : listing[i] # device_name
    \/ open = "error"

\* a start_capture that marks the session as capturing before it opens the
\* capture
start_capture_err_EarlyFlag(sn) ==
    [sn EXCEPT !.status_message = Status("starting", "", 0, <<>>),
               !.is_capturing = TRUE]

\* start_capture leaving through `?`: only the first status line was written
start_capture_err(sn) ==
    [sn EXCEPT !.status_message = Status("starting", "", 0, <<>>)]

\* start_capture: the status line chosen by the filter branch
StartStatus(sn, filt) ==
    LET dev == Unwrap(sn.device_name) IN
    IF IsSome(sn.current_filter) /\ Unwrap(sn.current_filter) # <<>>
    THEN IF filt = "ok"
         THEN Status("capturing_filter", dev, 0, Unwrap(sn.current_filter))
         ELSE Status("filter_error", "", 0, <<>>)
    ELSE Status("capturing", dev, 0, <<>>)

\* a start_capture that gives up capturing when the filter is rejected
start_capture_ok_AbortOnFilter(sn, w, filt) ==
    [sn EXCEPT !.status_message = StartStatus(sn, filt),
               !.packet_rx = Some(w),
               !.capture_thread_handle = Some(w),
               !.is_capturing = (StartStatus(sn, filt).kind # "filter_error"),
               !.packets = <<>>,
               !.packet_count = 0,
               !.scroll_position = 0]

\* a start_capture that keeps the packets of the session before
start_capture_ok_KeepPackets(sn, w, filt) ==
    [sn EXCEPT !.status_message = StartStatus(sn, filt),
               !.packet_rx = Some(w),
               !.capture_thread_handle = Some(w),
               !.is_capturing = TRUE,
               !.scroll_position = 0]

\* a start_capture that empties the list and leaves the window where it was
start_capture_ok_KeepScroll(sn, w, filt) ==
    [sn EXCEPT !.status_message = StartStatus(sn, filt),
               !.packet_rx = Some(w),
               !.capture_thread_handle = Some(w),
               !.is_capturing = TRUE,
               !.packets = <<>>,
               !.packet_count = 0]

\* start_capture after the capture was opened: install the channel's
\* receiver, keep the handle of the spawned worker w, reset the list
start_capture_ok(sn, w, filt) ==
    [sn EXCEPT !.status_message = StartStatus(sn, filt),
               !.packet_rx = Some(w),
               !.capture_thread_handle = Some(w),
               !.is_capturing = TRUE,
               !.packets = <<>>,
               !.packet_count = 0,
               !.scroll_position = 0]

\* the closure's `let mut packet_id = 0`
WorkerSpawned == [pc |-> "check", packet_id |-> 0]

\* stop_capture up to the join: the flag is stored by the caller
stop_capture_begin(sn) == [sn EXCEPT !.is_capturing = FALSE]

\* the thread slots after handle.take() and join(): the joined thread is gone
joined(sn, ws) ==
    IF IsSome(sn.capture_thread_handle)
    THEN [ws EXCEPT ![Unwrap(sn.capture_thread_handle)] =
             IF @.pc = "done" THEN NoWorker ELSE @]
    ELSE ws

\* a stop_capture that does not wait for the thread
JoinReturns_NoWait(sn, ws) == TRUE

\* handle.join() can return: there is no handle, or its thread has ended
JoinReturns(sn, ws) ==
    \/ sn.capture_thread_handle = None
    \/ ws[Unwrap(sn.capture_thread_handle)].pc = "done"

\* stop_capture after the join
stop_capture_end(sn) ==
    [sn EXCEPT !.capture_thread_handle = None,
               !.packet_rx = None,
               !.status_message =
                   IF IsSome(sn.device_name)
                   THEN Status("stopped", Unwrap(sn.device_name),
                               sn.packet_count, <<>>)
                   ELSE @]

\* SnifferPage::stop_capture as one call, for a page whose thread (if it has
\* one) has already ended, so that the join returns at once
stop_capture(sn) == stop_capture_end(stop_capture_begin(sn))

\* a receive_packets that puts what it received in front of the list
receive_packets_Prepend(sn, ch) ==
    IF IsSome(sn.packet_rx)
    THEN [sn EXCEPT !.packet_count = @ + Len(ch[Unwrap(sn.packet_rx)]),
                    !.packets = ch[Unwrap(sn.packet_rx)] \o @]
    ELSE sn

\* a receive_packets that takes one record per tick
receive_packets_One(sn, ch) ==
    IF IsSome(sn.packet_rx) /\ ch[Unwrap(sn.packet_rx)] # <<>>
    THEN [sn EXCEPT !.packet_count = @ + 1,
                    !.packets = Append(@, Head(ch[Unwrap(sn.packet_rx)]))]
    ELSE sn

\* receive_packets: try_recv until the channel is empty
receive_packets(sn, ch) ==
    IF IsSome(sn.packet_rx)
    THEN [sn EXCEPT !.packet_count = @ + Len(ch[Unwrap(sn.packet_rx)]),
                    !.packets = @ \o ch[Unwrap(sn.packet_rx)]]
    ELSE sn

\* the channels after the receiver held in packet_rx is dropped: what was
\* still queued is destroyed with it
dropped(sn, ch) ==
    IF IsSome(sn.packet_rx)
    THEN [ch EXCEPT ![Unwrap(sn.packet_rx)] = <<>>]
    ELSE ch

\* what receive_packets leaves in the channels
drained(sn, ch) ==
    IF IsSome(sn.packet_rx)
    THEN [ch EXCEPT ![Unwrap(sn.packet_rx)] = <<>>]
    ELSE ch

\* a select_packet that scrolls to the index and does not select it
select_packet_ScrollOnly(sn, index) ==
    IF index < Len(sn.packets)
    THEN [sn EXCEPT !.scroll_position = index]
    ELSE sn

\* SnifferPage::select_packet
select_packet(sn, index) ==
    IF index < Len(sn.packets)
    THEN LET visible_start == sn.scroll_position
             visible_end == visible_start + PageRows
         IN  [sn EXCEPT !.selected_packet = Some(index),
                        !.scroll_position =
                            IF index < visible_start THEN index
                            ELSE IF index >= visible_end
                                 THEN SatSub(index, PageRows - 1)
                                 ELSE @]
    ELSE sn

\* SnifferPage::get_packet
get_packet(sn, index) ==
    IF index < Len(sn.packets) THEN Some(sn.packets[index + 1]) ELSE None

\* SnifferPage::handle_mouse_click: the click falls inside the area
ClickInside(x, y, ax, ay, aw, ah) ==
    /\ x > ax
    /\ x < ax + aw - 1
    /\ y > ay + 1
    /\ y < ay + ah - 1

\* SnifferPage::handle_mouse_click: [sniffer, sent], sent being the action
\* pushed on action_tx, if any
handle_mouse_click(sn, x, y, ax, ay, aw, ah) ==
    IF ClickInside(x, y, ax, ay, aw, ah)
    THEN LET clicked_row == y - ay - 2
             packet_index == sn.scroll_position + clicked_row
         IN  IF packet_index < Len(sn.packets)
             THEN IF sn.selected_packet = Some(packet_index)
                  THEN [sniffer |-> sn, sent |-> Some(PacketSelected(packet_index))]
                  ELSE [sniffer |-> [sn EXCEPT !.selected_packet = Some(packet_index)],
                        sent |-> None]
             ELSE [sniffer |-> sn, sent |-> None]
    ELSE [sniffer |-> sn, sent |-> None]

\* SnifferPage::handle_events, the scroll wheel
scroll_wheel(sn, kind) ==
    IF kind = "ScrollUp"
    THEN IF sn.scroll_position > 0
         THEN [sn EXCEPT !.scroll_position = SatSub(@, WheelStep)]
         ELSE sn
    ELSE IF sn.scroll_position + PageRows < Len(sn.packets)
         THEN [sn EXCEPT !.scroll_position = @ + WheelStep]
         ELSE sn

\* SnifferPage::handle_key_events, 'c'
clear_packets(sn) ==
    [sn EXCEPT !.packets = <<>>,
               !.packet_count = 0,
               !.scroll_position = 0,
               !.selected_packet = None,
               !.status_message = Status("cleared", "", 0, <<>>)]

\* SnifferPage::handle_key_events for the keys that neither start nor stop a
\* capture nor open the dialog: the page after the key
sniffer_key(sn, key) ==
    CASE key = "s" ->
            \* reached only without a device
            [sn EXCEPT !.status_message = Status("no_device_d", "", 0, <<>>)]
      [] key = "c" -> clear_packets(sn)
      [] key = "f" -> [sn EXCEPT !.following = ~@]
      [] key = "Up" ->
            IF sn.packets # <<>>
            THEN IF IsSome(sn.selected_packet)
                 THEN IF Unwrap(sn.selected_packet) > 0
                      THEN select_packet(sn, Unwrap(sn.selected_packet) - 1)
                      ELSE sn
                 ELSE select_packet(sn, 0)
            ELSE IF sn.scroll_position > 0
                 THEN [sn EXCEPT !.scroll_position = @ - 1]
                 ELSE sn
      [] key = "Down" ->
            IF sn.packets # <<>>
            THEN IF IsSome(sn.selected_packet)
                 THEN IF Unwrap(sn.selected_packet) < Len(sn.packets) - 1
                      THEN select_packet(sn, Unwrap(sn.selected_packet) + 1)
                      ELSE sn
                 ELSE select_packet(sn, 0)
            ELSE IF sn.scroll_position + PageRows < Len(sn.packets)
                 THEN [sn EXCEPT !.scroll_position = @ + 1]
                 ELSE sn
      [] key = "Home" ->
            IF sn.packets # <<>>
            THEN select_packet(sn, 0)
            ELSE [sn EXCEPT !.scroll_position = 0]
      [] key = "End" ->
            IF sn.packets # <<>>
            THEN select_packet(sn, Len(sn.packets) - 1)
            ELSE IF Len(sn.packets) > PageRows
                 THEN [sn EXCEPT !.scroll_position = Len(sn.packets) - PageRows]
                 ELSE [sn EXCEPT !.scroll_position = 0]
      [] OTHER -> sn

\* SnifferPage::handle_key_events: the action the key returns
sniffer_key_action(sn, key) ==
    CASE key = "q" -> Some(NavigateToHome)
      [] key = "d" -> Some(NavigateToDevice)
      [] key = "Enter" ->
            IF IsSome(sn.selected_packet)
            THEN Some(PacketSelected(Unwrap(sn.selected_packet)))
            ELSE None
      [] OTHER -> None

\* an 's' that starts whenever a device is set, capturing or not
s_key_branch_AlwaysStart(sn) ==
    IF IsSome(sn.device_name) THEN "start" ELSE "no_device"

\* SnifferPage::handle_key_events, 's': which way the key goes
s_key_branch(sn) ==
    IF IsSome(sn.device_name)
    THEN IF sn.is_capturing THEN "stop" ELSE "start"
    ELSE "no_device"

\* SnifferPage::update
sniffer_update(sn, action) ==
    CASE action.type = "DeviceSelected" -> set_device(sn, action.name)
      [] action.type = "ApplyFilter" ->
            IF action.text = <<>>
            THEN [sn EXCEPT !.current_filter = None,
                            !.status_message = Status("filter_cleared", "", 0, <<>>)]
            ELSE [sn EXCEPT !.current_filter = Some(action.text),
                            !.status_message =
                                Status("filter_applied", "", 0, action.text)]
      [] action.type = "PacketSelected" ->
            IF action.index < Len(sn.packets)
            THEN [sn EXCEPT !.status_message =
                     Status("opening", "", sn.packets[action.index + 1].id, <<>>)]
            ELSE sn
      [] OTHER -> sn

\* a render whose follow branch takes the window to be 20 rows
sniffer_render_PageRows(sn, height) ==
    IF sn.following /\ sn.is_capturing
    THEN [sn EXCEPT !.scroll_position = SatSub(Len(sn.packets), PageRows)]
    ELSE sn

\* SnifferPage::render, the follow branch, for a terminal of the given height
sniffer_render(sn, height) ==
    IF sn.following /\ sn.is_capturing
    THEN [sn EXCEPT !.scroll_position =
             SatSub(Len(sn.packets), (height - BelowList) - ListChrome)]
    ELSE sn

\* ------------------------------------------------ FilterDialog operations
\* FilterDialog::open
dialog_open(fd) ==
    [fd EXCEPT !.is_open = TRUE,
               !.filter_text = <<>>,
               !.cursor_position = 0,
               !.selected_preset = 0,
               !.mode = "CustomInput"]

\* FilterDialog::close
dialog_close(fd) == [fd EXCEPT !.is_open = FALSE]

\* String::insert(idx, c)
StrInsert(text, idx, c) ==
    SubSeq(text, 1, idx) \o CharBytes(c) \o SubSeq(text, idx + 1, Len(text))

\* the byte length of the character that starts at byte idx
CharLenAt(text, idx) == IF text[idx + 1][2] = "lead" THEN 2 ELSE 1

\* String::remove(idx): the whole character at idx goes
StrRemove(text, idx) ==
    SubSeq(text, 1, idx) \o SubSeq(text, idx + CharLenAt(text, idx) + 1, Len(text))

\* String::insert panics unless idx is a character boundary
InsertPanics(text, idx) == idx > Len(text) \/ ~IsCharBoundary(text, idx)
\* String::remove panics at the end of the string and inside a character
RemovePanics(text, idx) == idx >= Len(text) \/ ~IsCharBoundary(text, idx)

\* FilterDialog::handle_custom_input panics on this key
custom_input_panics(fd, key) ==
    CASE key \in AsciiChars \cup WideChars ->
            InsertPanics(fd.filter_text, fd.cursor_position)
      [] key = "Backspace" ->
            /\ fd.cursor_position > 0
            /\ fd.filter_text # <<>>
            /\ RemovePanics(fd.filter_text, fd.cursor_position - 1)
      [] key = "Delete" ->
            /\ fd.cursor_position < Len(fd.filter_text)
            /\ RemovePanics(fd.filter_text, fd.cursor_position)
      [] OTHER -> FALSE

\* FilterDialog::handle_custom_input
handle_custom_input(fd, key) ==
    CASE key \in AsciiChars \cup WideChars ->
            [fd EXCEPT !.filter_text = StrInsert(@, fd.cursor_position, key),
                       !.cursor_position = @ + 1]
      [] key = "Backspace" ->
            IF fd.cursor_position > 0 /\ fd.filter_text # <<>>
            THEN [fd EXCEPT !.cursor_position = @ - 1,
                            !.filter_text = StrRemove(@, fd.cursor_position - 1)]
            ELSE fd
      [] key = "Delete" ->
            IF fd.cursor_position < Len(fd.filter_text)
            THEN [fd EXCEPT !.filter_text = StrRemove(@, fd.cursor_position)]
            ELSE fd
      [] key = "Left" ->
            IF fd.cursor_position > 0
            THEN [fd EXCEPT !.cursor_position = @ - 1] ELSE fd
      [] key = "Right" ->
            IF fd.cursor_position < Len(fd.filter_text)
            THEN [fd EXCEPT !.cursor_position = @ + 1] ELSE fd
      [] key = "Home" -> [fd EXCEPT !.cursor_position = 0]
      [] key = "End" -> [fd EXCEPT !.cursor_position = Len(fd.filter_text)]
      [] OTHER -> fd

\* FilterDialog::handle_preset_sel
handle_preset_sel(fd, key) ==
    CASE key = "Up" ->
            IF fd.selected_preset > 0
            THEN [fd EXCEPT !.selected_preset = @ - 1] ELSE fd
      [] key = "Down" ->
            IF fd.selected_preset < Len(get_filter_presets) - 1
            THEN [fd EXCEPT !.selected_preset = @ + 1] ELSE fd
      [] key = "Home" -> [fd EXCEPT !.selected_preset = 0]
      [] key = "End" ->
            [fd EXCEPT !.selected_preset = SatSub(Len(get_filter_presets), 1)]
      [] OTHER -> fd

\* an Enter that resolves a preset to the entry below the highlighted one
resolved_filter_NextRow(fd) ==
    IF fd.mode = "CustomInput"
    THEN Some(fd.filter_text)
    ELSE Some(get_filter_presets[Min(fd.selected_preset + 2,
                                     Len(get_filter_presets))].filter)

\* FilterDialog::handle_key_events, Enter: the filter text it resolves to
\* (None when the preset index has no entry)
resolved_filter(fd) ==
    IF fd.mode = "CustomInput"
    THEN Some(fd.filter_text)
    ELSE IF fd.selected_preset < Len(get_filter_presets)
         THEN Some(get_filter_presets[fd.selected_preset + 1].filter)
         ELSE None

\* FilterDialog::handle_key_events: the dialog after the key
dialog_key(fd, key) ==
    CASE key = "Esc" -> dialog_close(fd)
      [] key = "Tab" ->
            [fd EXCEPT !.mode = IF @ = "CustomInput" THEN "PresetSelection"
                                                     ELSE "CustomInput"]
      [] key = "Enter" ->
            IF IsSome(resolved_filter(fd)) THEN dialog_close(fd) ELSE fd
      [] OTHER ->
            IF fd.mode = "CustomInput"
            THEN handle_custom_input(fd, key)
            ELSE handle_preset_sel(fd, key)

\* FilterDialog::apply_filter: what Enter pushes on action_tx
dialog_sent(fd, key) ==
    IF key = "Enter" /\ IsSome(resolved_filter(fd))
    THEN Some(ApplyFilter(Unwrap(resolved_filter(fd))))
    ELSE None

\* the key makes the dialog panic
dialog_panics(fd, key) ==
    /\ key \notin {"Esc", "Tab", "Enter"}
    /\ fd.mode = "CustomInput"
    /\ custom_input_panics(fd, key)

\* -------------------------------------------------- DevicePage operations
\* DevicePage::select_current_device indexes past the device list
select_current_device_panics(dp) ==
    /\ IsSome(dp.list_state)
    /\ Unwrap(dp.list_state) <= Len(dp.devices)
    /\ \/ Unwrap(dp.list_state) = 0
       \/ Unwrap(dp.list_state) >= Len(dp.devices)

\* DevicePage::select_current_device: the page afterwards
select_current_device(dp) ==
    IF IsSome(dp.list_state) /\ Unwrap(dp.list_state) <= Len(dp.devices)
    THEN [dp EXCEPT !.selected_device = Some(dp.devices[Unwrap(dp.list_state)]),
                    !.status_message =
                        Status("selected", dp.devices[Unwrap(dp.list_state) + 1],
                               0, <<>>)]
    ELSE dp

\* DevicePage::select_current_device: what it pushes on action_tx
select_current_device_sent(dp) ==
    IF IsSome(dp.list_state) /\ Unwrap(dp.list_state) <= Len(dp.devices)
    THEN Some(DeviceSelected(dp.devices[Unwrap(dp.list_state)]))
    ELSE None

\* DevicePage::handle_key_events, Enter: the guard of the call
device_enter_selects(dp) ==
    /\ IsSome(dp.list_state)
    /\ Unwrap(dp.list_state) > 0
    /\ Unwrap(dp.list_state) <= Len(dp.devices)

\* DevicePage::clear_selection
clear_selection(dp) ==
    [dp EXCEPT !.list_state = None,
               !.selected_device = None,
               !.status_message =
                   IF dp.devices # <<>>
                   THEN Status("found", "", Len(dp.devices), <<>>) ELSE @]

\* DevicePage::handle_key_events for the keys that do not select: the page
\* after the key
device_key(dp, key, listing) ==
    CASE key = "Up" ->
            IF dp.devices # <<>>
            THEN LET current == IF IsSome(dp.list_state)
                                THEN Unwrap(dp.list_state) ELSE 1
                 IN  [dp EXCEPT !.list_state =
                         Some(IF current <= 1 THEN Len(dp.devices)
                                              ELSE current - 1)]
            ELSE dp
      [] key = "Down" ->
            IF dp.devices # <<>>
            THEN LET current == IF IsSome(dp.list_state)
                                THEN Unwrap(dp.list_state) ELSE 0
                 IN  [dp EXCEPT !.list_state =
                         Some(IF current >= Len(dp.devices) THEN 1
                                                            ELSE current + 1)]
            ELSE dp
      [] key = "c" -> clear_selection(dp)
      [] key = "F5" -> load_devices(dp, listing)
      [] OTHER -> dp

\* DevicePage::handle_key_events: the action the key returns
device_key_action(key) ==
    IF key \in {"b", "q"} THEN Some(NavigateToHome) ELSE None

\* DevicePage::handle_mouse_click: the click falls on a device row
device_click_row(dp, x, y, ax, ay, aw, ah) ==
    /\ x >= ax
    /\ x < ax + aw
    /\ y > ay + 1
    /\ y < ay + ah - 1
    /\ y - ay - 2 < Len(dp.devices)

\* ---------------------------------------------------- HomePage operations
\* HomePage::handle_key_events: the page after the key
home_key(hp, key) ==
    CASE key = "Up" ->
            [hp EXCEPT !.list_state =
                IF IsSome(@) THEN Some(IF Unwrap(@) <= 1 THEN 2 ELSE Unwrap(@) - 1)
                             ELSE Some(1)]
      [] key = "Down" ->
            [hp EXCEPT !.list_state =
                IF IsSome(@) THEN Some(IF Unwrap(@) >= 2 THEN 1 ELSE Unwrap(@) + 1)
                             ELSE Some(1)]
      [] OTHER -> hp

\* HomePage::handle_key_events: the action the key returns
home_key_action(hp, key) ==
    CASE key = "Enter" ->
            IF hp.list_state = Some(1) THEN Some(NavigateToDevice)
            ELSE IF hp.list_state = Some(2) THEN Some(NavigateToSniffer)
            ELSE None
      [] key = "d" -> Some(NavigateToDevice)
      [] key = "s" -> Some(NavigateToSniffer)
      [] key = "q" -> Some(Quit)
      [] OTHER -> None

\* HomePage::handle_mouse_click: the menu after the click (the action a
\* click on the highlighted row returns is dropped: HomePage keeps no sender)
home_mouse_click(hp, x, y, ax, ay, aw, ah) ==
    IF x >= ax /\ x < ax + aw /\ y > ay + 1 /\ y < ay + ah - 1
       /\ y - ay - 2 < 2
       /\ hp.list_state # Some(y - ay - 2 + 1)
    THEN [hp EXCEPT !.list_state = Some(y - ay - 2 + 1)]
    ELSE hp

\* ------------------------------------------- PacketDetailsPage operations
\* a set_packet that keeps the scroll position of the record before
set_packet_KeepScroll(dt, packet) == [dt EXCEPT !.packet = Some(packet)]

\* PacketDetailsPage::set_packet
set_packet(dt, packet) == [dt EXCEPT !.packet = Some(packet), !.hex_scroll = 0]

\* PacketDetailsPage::handle_key_events: the scroll bound it computes
max_scroll(packet) == SatSub(packet.length \div BytesPerLine, HexPage)

\* a detail viewer that lets go of its record when it is left with 'q'
details_key_Forget(dt, key) ==
    IF key = "q" THEN [dt EXCEPT !.packet = None] ELSE dt

\* PacketDetailsPage::handle_key_events: the page after the key
details_key(dt, key) ==
    IF dt.packet = None THEN dt
    ELSE LET packet == Unwrap(dt.packet) IN
         CASE key = "Up" ->
                 IF dt.hex_scroll > 0 THEN [dt EXCEPT !.hex_scroll = @ - 1] ELSE dt
           [] key = "Down" ->
                 IF dt.hex_scroll < max_scroll(packet)
                 THEN [dt EXCEPT !.hex_scroll = @ + 1] ELSE dt
           [] key = "PageUp" -> [dt EXCEPT !.hex_scroll = SatSub(@, HexPage)]
           [] key = "PageDown" ->
                 [dt EXCEPT !.hex_scroll = Min(@ + HexPage, max_scroll(packet))]
           [] key = "Home" -> [dt EXCEPT !.hex_scroll = 0]
           [] key = "End" -> [dt EXCEPT !.hex_scroll = max_scroll(packet)]
           [] OTHER -> dt

\* PacketDetailsPage::handle_key_events: the action the key returns
details_key_action(dt, key) ==
    IF dt.packet # None /\ key = "q" THEN Some(NavigateToSniffer) ELSE None

\* ------------------------------------------------------------------- App
\* App::handle_action: the app, the session page and the detail viewer after
\* the action
handle_action(action, ap, sn, dt) ==
    CASE action.type = "NavigateToHome" ->
            [app |-> [ap EXCEPT !.current_page = "Home"], sniffer |-> sn,
             details |-> dt]
      [] action.type = "NavigateToDevice" ->
            [app |-> [ap EXCEPT !.current_page = "Device"], sniffer |-> sn,
             details |-> dt]
      [] action.type = "NavigateToSniffer" ->
            [app |-> [ap EXCEPT !.current_page = "Sniffer"], sniffer |-> sn,
             details |-> dt]
      [] action.type = "DeviceSelected" ->
            [app |-> [ap EXCEPT !.current_page = "Sniffer"],
             sniffer |-> sniffer_update(sn, action), details |-> dt]
      [] action.type = "PacketSelected" ->
            LET sn2 == sniffer_update(sn, action)
                got == get_packet(sn2, action.index)
            IN  IF IsSome(got)
                THEN [app |-> [ap EXCEPT !.current_page = "PacketDetails"],
                      sniffer |-> sn2, details |-> set_packet(dt, Unwrap(got))]
                ELSE [app |-> ap, sniffer |-> sn2, details |-> dt]
      [] action.type = "Quit" ->
            [app |-> [ap EXCEPT !.should_quit = TRUE], sniffer |-> sn,
             details |-> dt]
      [] OTHER ->
            [app |-> ap,
             sniffer |-> IF ap.current_page = "Sniffer"
                         THEN sniffer_update(sn, action) ELSE sn,
             details |-> dt]

\* App::handle_events, `if let Some(action) = action { handle_action }`
after_event(returned, ap, sn, dt) ==
    IF IsSome(returned)
    THEN handle_action(Unwrap(returned), ap, sn, dt)
    ELSE [app |-> ap, sniffer |-> sn, details |-> dt]

\* ------------------------------------------------------------ the inputs
\* terminal width, and the columns and rows the mouse is clicked at (column
\* 99 is on the list of a terminal this wide, and is the first column the
\* fixed click area of the session page leaves out)
TermWidth == 120
MouseCols == {0, 5, 99}
MouseRows == {1, 2, 3}
\* the keys pressed on each page (Esc and Ctrl-C are taken by the app first)
HomeKeys == {"Enter", "d", "s", "q"}
DeviceKeys == {"Enter", "q", "Down", "F5"}
SnifferKeys == {"s", "q", "d", "a", "c", "f", "Enter", "Up", "Down", "Home", "End"}
DialogKeys == {"Enter", "t", "Tab", "End"}
DetailsKeys == {"q", "Down", "End"}

\* ----------------------------------------------------------- main's loop
\* main is inside `event::poll(timeout)` / `event::read()`
Polling == main_result = "running" /\ main_pc = "poll"

\* the handler returned Ok: main goes on to `action_rx.try_recv()`
UiDone(r) ==
    /\ app' = r.app
    /\ sniffer' = r.sniffer
    /\ details' = r.details
    /\ main_pc' = "action"

\* event::poll timed out, or the event read is one no page reacts to
NoInput ==
    /\ Polling
    /\ main_pc' = "action"
    /\ UNCHANGED <<main_result, app, action_q, home_page, device_page, sniffer,
                   filter_dialog, details, stop_capture_flag, workers, chan>>

\* App::handle_global_key_events, Esc
KeyEsc ==
    /\ Polling
    /\ IF app.current_page # "Home"
       THEN UiDone(handle_action(NavigateToHome, app, sniffer, details))
       ELSE UiDone([app |-> [app EXCEPT !.should_quit = TRUE],
                    sniffer |-> sniffer, details |-> details])
    /\ UNCHANGED <<main_result, action_q, home_page, device_page, filter_dialog,
                   stop_capture_flag, workers, chan>>

\* Ctrl-C: App::handle_global_key_events calls quit() and returns None, so
\* App::handle_events passes the key on to the current page, which sees 'c'
KeyCtrlC ==
    /\ Polling
    /\ LET quit == [app EXCEPT !.should_quit = TRUE] IN
       CASE app.current_page = "Home" ->
               /\ home_page' = home_key(home_page, "c")
               /\ UiDone(after_event(home_key_action(home_page, "c"),
                                     quit, sniffer, details))
               /\ UNCHANGED <<main_result, action_q, device_page, filter_dialog>>
         [] app.current_page = "Device" ->
               /\ device_page' = device_key(device_page, "c", <<>>)
               /\ UiDone(after_event(device_key_action("c"),
                                     quit, sniffer, details))
               /\ UNCHANGED <<main_result, action_q, home_page, filter_dialog>>
         [] app.current_page = "Sniffer" /\ filter_dialog.is_open ->
               /\ IF dialog_panics(filter_dialog, "c")
                  THEN /\ main_result' = "panic"
                       /\ app' = quit
                       /\ UNCHANGED <<main_pc, action_q, filter_dialog, sniffer,
                                      details>>
                  ELSE /\ filter_dialog' = dialog_key(filter_dialog, "c")
                       /\ action_q' = action_q \o dialog_sent(filter_dialog, "c")
                       /\ UiDone(handle_action(Handled, quit, sniffer, details))
                       /\ UNCHANGED main_result
               /\ UNCHANGED <<home_page, device_page>>
         [] app.current_page = "Sniffer" /\ ~filter_dialog.is_open ->
               /\ UiDone(after_event(sniffer_key_action(sniffer, "c"), quit,
                                     sniffer_key(sniffer, "c"), details))
               /\ UNCHANGED <<main_result, action_q, home_page, device_page,
                              filter_dialog>>
         [] OTHER ->
               /\ UiDone(after_event(details_key_action(details, "c"), quit,
                                     sniffer, details_key(details, "c")))
               /\ UNCHANGED <<main_result, action_q, home_page, device_page,
                              filter_dialog>>
    /\ UNCHANGED <<stop_capture_flag, workers, chan>>

\* a key on the home menu
HomeKey ==
    /\ Polling
    /\ app.current_page = "Home"
    /\ \E key \in HomeKeys :
          /\ home_page' = home_key(home_page, key)
          /\ UiDone(after_event(home_key_action(home_page, key),
                                app, sniffer, details))
    /\ UNCHANGED <<main_result, action_q, device_page, filter_dialog,
                   stop_capture_flag, workers, chan>>

\* a left click on the home menu: kept until the next render
HomeMouse ==
    /\ Polling
    /\ app.current_page = "Home"
    /\ \E x \in MouseCols, y \in MouseRows :
          home_page' = [home_page EXCEPT !.mouse_event = Some(<<x, y>>)]
    /\ main_pc' = "action"
    /\ UNCHANGED <<main_result, app, action_q, device_page, sniffer,
                   filter_dialog, details, stop_capture_flag, workers, chan>>

\* what Device::list() may return when the key makes the picker call it
Listings(key) == IF key = "F5" THEN DeviceLists \cup {ListError} ELSE {<<>>}

\* a key on the device picker, other than a confirming Enter
DeviceKeyIn(keys) ==
    /\ Polling
    /\ app.current_page = "Device"
    /\ \E key \in keys :
          /\ ~(key = "Enter" /\ device_enter_selects(device_page))
          /\ \E listing \in Listings(key) :
                device_page' = device_key(device_page, key, listing)
          /\ UiDone(after_event(device_key_action(key), app, sniffer, details))
    /\ UNCHANGED <<main_result, action_q, home_page, filter_dialog,
                   stop_capture_flag, workers, chan>>

DeviceKey == DeviceKeyIn(DeviceKeys)

\* Enter on a highlighted device row: select_current_device
DeviceEnter ==
    /\ Polling
    /\ app.current_page = "Device"
    /\ device_enter_selects(device_page)
    /\ IF select_current_device_panics(device_page)
       THEN /\ main_result' = "panic"
            /\ UNCHANGED <<main_pc, action_q, device_page>>
       ELSE /\ device_page' = select_current_device(device_page)
            /\ action_q' = action_q \o select_current_device_sent(device_page)
            /\ main_pc' = "action"
            /\ UNCHANGED main_result
    /\ UNCHANGED <<app, home_page, sniffer, filter_dialog, details,
                   stop_capture_flag, workers, chan>>

\* a left click on the device picker: kept until the next render
DeviceMouse ==
    /\ Polling
    /\ app.current_page = "Device"
    /\ \E x \in MouseCols, y \in MouseRows :
          device_page' = [device_page EXCEPT !.mouse_event = Some(<<x, y>>)]
    /\ main_pc' = "action"
    /\ UNCHANGED <<main_result, app, action_q, home_page, sniffer,
                   filter_dialog, details, stop_capture_flag, workers, chan>>

\* a key on the session page while the filter dialog is open: the dialog
\* takes it and returns Handled
\* (text is typed only while it stays within the given number of bytes)
DialogKeyStep(key, room) ==
    /\ Polling
    /\ app.current_page = "Sniffer"
    /\ filter_dialog.is_open
    /\ key \in AsciiChars \cup WideChars =>
          Len(filter_dialog.filter_text) + Len(CharBytes(key)) <= room
    /\ IF dialog_panics(filter_dialog, key)
       THEN /\ main_result' = "panic"
            /\ UNCHANGED <<main_pc, action_q, filter_dialog, app, sniffer,
                           details>>
       ELSE /\ filter_dialog' = dialog_key(filter_dialog, key)
            /\ action_q' = action_q \o dialog_sent(filter_dialog, key)
            /\ UiDone(handle_action(Handled, app, sniffer, details))
            /\ UNCHANGED main_result
    /\ UNCHANGED <<home_page, device_page, stop_capture_flag, workers, chan>>

\* a key of the given set on the open dialog
DialogKeyIn(keys) == \E key \in keys : DialogKeyStep(key, MaxText)

\* a key handler in which 'a' opens the dialog without stopping the capture
StopsCapture_NotOnA(sn, key) ==
    \/ key = "s" /\ s_key_branch(sn) = "stop"
    \/ key = "q" /\ sn.is_capturing

\* the dialog keys of the capture model
DialogKey == DialogKeyIn(DialogKeys)

\* the key stops the running capture ('s' as a toggle, 'q' and 'a' first)
StopsCapture(sn, key) ==
    \/ key = "s" /\ s_key_branch(sn) = "stop"
    \/ key \in {"q", "a"} /\ sn.is_capturing

\* the key starts a capture
StartsCapture(sn, key) == key = "s" /\ s_key_branch(sn) = "start"

\* the session page has the keyboard
SnifferHasKeys ==
    /\ Polling
    /\ app.current_page = "Sniffer"
    /\ ~filter_dialog.is_open

\* the given key on the session page, when it neither starts nor stops a
\* capture
SnifferKeyStep(key) ==
    /\ SnifferHasKeys
    /\ ~StopsCapture(sniffer, key)
    /\ ~StartsCapture(sniffer, key)
    /\ filter_dialog' = IF key = "a" THEN dialog_open(filter_dialog)
                                     ELSE filter_dialog
    /\ UiDone(after_event(sniffer_key_action(sniffer, key), app,
                          sniffer_key(sniffer, key), details))
    /\ UNCHANGED <<main_result, action_q, home_page, device_page,
                   stop_capture_flag, workers, chan>>

\* a key of the given set on the session page
SnifferKeyIn(keys) == \E key \in keys : SnifferKeyStep(key)

\* a key on the session page that neither starts nor stops a capture
SnifferKey == SnifferKeyIn(SnifferKeys)

\* 's' with a device and no capture running: start_capture fails, the error
\* is returned through handle_key_events, handle_events and main
StartCaptureFails ==
    /\ SnifferHasKeys
    /\ StartsCapture(sniffer, "s")
    /\ \E listing \in DeviceLists \cup {ListError}, open \in OpenOutcomes :
          StartFails(Unwrap(sniffer.device_name), listing, open)
    /\ sniffer' = start_capture_err(sniffer)
    /\ main_result' = "err"
    /\ UNCHANGED <<main_pc, app, action_q, home_page, device_page, filter_dialog,
                   details, stop_capture_flag, workers, chan>>

\* the worker the next thread::spawn creates
NewWorker == CHOOSE w \in WorkerIds \ Spawned : \A v \in WorkerIds \ Spawned : w <= v

\* 's' with a device and no capture running: start_capture succeeds
StartCaptureOk ==
    /\ SnifferHasKeys
    /\ StartsCapture(sniffer, "s")
    /\ Spawned # WorkerIds
    /\ \E listing \in DeviceLists, filt \in FilterOutcomes :
          /\ ~StartFails(Unwrap(sniffer.device_name), listing, "ok")
          /\ sniffer' = start_capture_ok(sniffer, NewWorker, filt)
    /\ stop_capture_flag' = FALSE
    /\ workers' = [workers EXCEPT ![NewWorker] = WorkerSpawned]
    /\ chan' = [dropped(sniffer, chan) EXCEPT ![NewWorker] = <<>>]
    /\ main_pc' = "action"
    /\ UNCHANGED <<main_result, app, action_q, home_page, device_page,
                   filter_dialog, details>>

\* where main waits while stop_capture is inside handle.join()
JoinPc(key) == CASE key = "s" -> "join_s" [] key = "q" -> "join_q"
                 [] OTHER -> "join_a"

\* 's', 'q' or 'a' while capturing: stop_capture stores the flag and blocks
\* in the join
StopCaptureBegin ==
    /\ SnifferHasKeys
    /\ \E key \in {"s", "q", "a"} :
          /\ StopsCapture(sniffer, key)
          /\ main_pc' = JoinPc(key)
    /\ stop_capture_flag' = TRUE
    /\ sniffer' = stop_capture_begin(sniffer)
    /\ UNCHANGED <<main_result, app, action_q, home_page, device_page,
                   filter_dialog, details, workers, chan>>

\* the join returns; stop_capture and then the key's handler finish
StopCaptureEnd ==
    /\ main_result = "running"
    /\ main_pc \in {"join_s", "join_q", "join_a"}
    /\ JoinReturns(sniffer, workers)
    /\ filter_dialog' = IF main_pc = "join_a" THEN dialog_open(filter_dialog)
                                              ELSE filter_dialog
    /\ UiDone(after_event(IF main_pc = "join_q" THEN Some(NavigateToHome) ELSE None,
                          app, stop_capture_end(sniffer), details))
    /\ workers' = joined(sniffer, workers)
    /\ chan' = dropped(sniffer, chan)
    /\ UNCHANGED <<main_result, action_q, home_page, device_page,
                   stop_capture_flag>>

\* a left mouse press at column x, row y on the session page
SnifferClick(x, y) ==
    /\ Polling
    /\ app.current_page = "Sniffer"
    /\ LET r == handle_mouse_click(sniffer, x, y, 0, 0, ClickAreaSize,
                                   ClickAreaSize)
       IN  /\ sniffer' = r.sniffer
           /\ action_q' = action_q \o r.sent
    /\ main_pc' = "action"
    /\ UNCHANGED <<main_result, app, home_page, device_page, filter_dialog,
                   details, stop_capture_flag, workers, chan>>

\* a scroll-wheel event on the session page
SnifferWheel(kind) ==
    /\ Polling
    /\ app.current_page = "Sniffer"
    /\ sniffer' = scroll_wheel(sniffer, kind)
    /\ main_pc' = "action"
    /\ UNCHANGED <<main_result, app, action_q, home_page, device_page,
                   filter_dialog, details, stop_capture_flag, workers, chan>>

\* a mouse event on the session page (the dialog, open or not, lets it pass)
SnifferMouse ==
    \/ \E x \in MouseCols, y \in MouseRows : SnifferClick(x, y)
    \/ \E kind \in {"ScrollUp", "ScrollDown"} : SnifferWheel(kind)

\* the given key on the detail viewer
DetailsKeyStep(key) ==
    /\ Polling
    /\ app.current_page = "PacketDetails"
    /\ UiDone(after_event(details_key_action(details, key), app, sniffer,
                          details_key(details, key)))
    /\ UNCHANGED <<main_result, action_q, home_page, device_page, filter_dialog,
                   stop_capture_flag, workers, chan>>

\* a key of the given set on the detail viewer
DetailsKeyIn(keys) == \E key \in keys : DetailsKeyStep(key)

\* a key on the detail viewer
DetailsKey == DetailsKeyIn(DetailsKeys)

\* `if let Ok(action) = action_rx.try_recv() { app.handle_action(action) }`
RecvAction ==
    /\ main_result = "running"
    /\ main_pc = "action"
    /\ IF action_q # <<>>
       THEN /\ action_q' = Tail(action_q)
            /\ LET r == handle_action(Head(action_q), app, sniffer, details)
               IN  app' = r.app /\ sniffer' = r.sniffer /\ details' = r.details
       ELSE UNCHANGED <<action_q, app, sniffer, details>>
    /\ main_pc' = "tick"
    /\ UNCHANGED <<main_result, home_page, device_page, filter_dialog,
                   stop_capture_flag, workers, chan>>

\* SnifferPage::handle_events(Tick): drain the channel while capturing
sniffer_tick(sn, ch) == IF sn.is_capturing THEN receive_packets(sn, ch) ELSE sn
\* the channels after SnifferPage::handle_events(Tick)
sniffer_tick_chan(sn, ch) == IF sn.is_capturing THEN drained(sn, ch) ELSE ch

\* `rx.recv().await` delivers a Tick, the current page handles it, and main
\* tests should_quit
TickEvent ==
    /\ main_result = "running"
    /\ main_pc = "tick"
    /\ IF app.current_page = "Sniffer"
       THEN /\ sniffer' = sniffer_tick(sniffer, chan)
            /\ chan' = sniffer_tick_chan(sniffer, chan)
       ELSE UNCHANGED <<sniffer, chan>>
    /\ IF app.should_quit
       THEN main_result' = "ok" /\ UNCHANGED main_pc
       ELSE main_pc' = "draw" /\ UNCHANGED main_result
    /\ UNCHANGED <<app, action_q, home_page, device_page, filter_dialog, details,
                   stop_capture_flag, workers>>

\* DevicePage::render: the pending click is handled against the list area
device_render_click(dp, height) ==
    IF IsSome(dp.mouse_event)
       /\ device_click_row(dp, Unwrap(dp.mouse_event)[1], Unwrap(dp.mouse_event)[2],
                           0, 0, TermWidth, height - BelowList)
    THEN Some(Unwrap(dp.mouse_event)[2] - 2)
    ELSE None

\* tui.draw: App::render renders the current page
Render ==
    /\ main_result = "running"
    /\ main_pc = "draw"
    /\ \E height \in TermHeights :
          CASE app.current_page = "Home" ->
                  /\ home_page' =
                        [(IF IsSome(home_page.mouse_event)
                          THEN home_mouse_click(home_page,
                                   Unwrap(home_page.mouse_event)[1],
                                   Unwrap(home_page.mouse_event)[2],
                                   0, 0, TermWidth, height - BelowList)
                          ELSE home_page) EXCEPT !.mouse_event = None]
                  /\ main_pc' = "poll"
                  /\ UNCHANGED <<main_result, device_page, sniffer, action_q>>
            [] app.current_page = "Device" ->
                  LET row == device_render_click(device_page, height)
                      dp == [device_page EXCEPT !.mouse_event = None]
                  IN  IF IsSome(row) /\ dp.list_state = Some(Unwrap(row) + 1)
                      THEN IF select_current_device_panics(dp)
                           THEN /\ main_result' = "panic"
                                /\ UNCHANGED <<main_pc, device_page, action_q,
                                               home_page, sniffer>>
                           ELSE /\ device_page' = select_current_device(dp)
                                /\ action_q' = action_q \o
                                                  select_current_device_sent(dp)
                                /\ main_pc' = "poll"
                                /\ UNCHANGED <<main_result, home_page, sniffer>>
                      ELSE /\ device_page' =
                                 IF IsSome(row)
                                 THEN [dp EXCEPT !.list_state = Some(Unwrap(row) + 1)]
                                 ELSE dp
                           /\ main_pc' = "poll"
                           /\ UNCHANGED <<main_result, home_page, sniffer, action_q>>
            [] app.current_page = "Sniffer" ->
                  /\ sniffer' = sniffer_render(sniffer, height)
                  /\ main_pc' = "poll"
                  /\ UNCHANGED <<main_result, home_page, device_page, action_q>>
            [] OTHER ->
                  /\ main_pc' = "poll"
                  /\ UNCHANGED <<main_result, home_page, device_page, sniffer,
                                 action_q>>
    /\ UNCHANGED <<app, filter_dialog, details, stop_capture_flag, workers, chan>>

Next ==
    \/ NoInput
    \/ KeyEsc
    \/ KeyCtrlC
    \/ HomeKey
    \/ DeviceKey
    \/ DeviceEnter
    \/ DeviceMouse
    \/ HomeMouse
    \/ DialogKey
    \/ SnifferKey
    \/ StartCaptureFails
    \/ StartCaptureOk
    \/ StopCaptureBegin
    \/ StopCaptureEnd
    \/ SnifferMouse
    \/ DetailsKey
    \/ RecvAction
    \/ TickEvent
    \/ Render
    \/ \E w \in WorkerIds : WorkerCheck(w)
    \/ \E w \in WorkerIds : WorkerTimeout(w)
    \/ \E w \in WorkerIds : WorkerFrame(w)

Spec == Init /\ [][Next]_vars

\* ------------------------------------------------- the capture session
\* the program driven from the keyboard while the system's device list stays
\* as it was at startup: every step of Next but a pointer press on the home
\* menu or the device picker and a reload of the device list (F5).
\* Spec itself has 88,054,860 reachable states; the safety properties of the
\* session that hold under SpecSession hold under Spec as well.
StableKeys == DeviceKeys \ {"F5"}
NextSession ==
    \/ NoInput
    \/ KeyEsc
    \/ KeyCtrlC
    \/ HomeKey
    \/ DeviceKeyIn(StableKeys)
    \/ DeviceEnter
    \/ DialogKey
    \/ SnifferKey
    \/ StartCaptureFails
    \/ StartCaptureOk
    \/ StopCaptureBegin
    \/ StopCaptureEnd
    \/ SnifferMouse
    \/ DetailsKey
    \/ RecvAction
    \/ TickEvent
    \/ Render
    \/ \E w \in WorkerIds : WorkerCheck(w)
    \/ \E w \in WorkerIds : WorkerTimeout(w)
    \/ \E w \in WorkerIds : WorkerFrame(w)

SpecSession == Init /\ [][NextSession]_vars

\* ------------------------------------------------------- fair scheduling
\* the capture thread is scheduled, every timed read returns (with a frame or
\* a timeout), and a join whose thread has ended returns
SpecFair ==
    /\ SpecSession
    /\ WF_vars(\E w \in WorkerIds : WorkerCheck(w))
    /\ WF_vars(\E w \in WorkerIds : WorkerTimeout(w) \/ WorkerFrame(w))
    /\ WF_vars(StopCaptureEnd)

\* ------------------------------------------- the menus and the filter dialog
\* every key the filter dialog's preset list reacts to
PresetKeys == {"Enter", "Tab", "Up", "Down", "Home", "End"}
\* a key on the open filter dialog, preset navigation included
DialogPresetKey == DialogKeyIn(PresetKeys)

\* the program as long as no capture is started: the menus, the device
\* picker with its mouse, the filter dialog and the action queue
NextUi ==
    \/ NoInput
    \/ KeyEsc
    \/ HomeKey
    \/ DeviceKey
    \/ DeviceEnter
    \/ DeviceMouse
    \/ DialogPresetKey
    \/ SnifferKey
    \/ RecvAction
    \/ TickEvent
    \/ Render

SpecUi == Init /\ [][NextUi]_vars

\* --------------------------------------------------- the packet list view
\* the session page with a list of packets to move in: the state the page is
\* in after eth0 was picked, a capture was started and delivered n frames
\* that a tick received, the capture still running or stopped since
ListLens == {0, 1, PageRows + 1, PageRows + 3, MaxList}

\* the records of the first n frames of a capture, all of frame kind f
Captured(n, f) == [i \in 1..n |-> parse_packet(i, f)]

\* the session page after start_capture, n frames and a tick, and after
\* stop_capture unless it is still capturing
ListSession(n, f, capturing) ==
    LET started == start_capture_ok(set_device(SnifferDefault, "eth0"), 1, "ok")
        filled == receive_packets(started,
                      [w \in WorkerIds |-> IF w = 1 THEN Captured(n, f) ELSE <<>>])
    IN  IF capturing THEN filled ELSE stop_capture(filled)

\* the other variables of that state
ViewInit(n, capturing) ==
    /\ main_pc = "poll"
    /\ main_result = "running"
    /\ app = [should_quit |-> FALSE, current_page |-> "Sniffer"]
    /\ action_q = <<>>
    /\ home_page = HomePageNew
    /\ device_page = select_current_device(
                         load_devices(DevicePageDefault, <<"eth0", "lo">>))
    /\ filter_dialog = FilterDialogDefault
    /\ details = DetailsDefault
    /\ stop_capture_flag = ~capturing
    /\ workers = [w \in WorkerIds |->
                    IF capturing /\ w = 1
                    THEN [pc |-> "check", packet_id |-> n] ELSE NoWorker]
    /\ chan = [w \in WorkerIds |-> <<>>]

InitList ==
    \E n \in ListLens, capturing \in BOOLEAN :
        /\ sniffer = ListSession(n, "f40", capturing)
        /\ ViewInit(n, capturing)

\* the keys that move in the list, and the follow toggle
ListKeys == {"f", "Up", "Down", "Home", "End"}
\* a list key on the session page
SnifferListKey == SnifferKeyIn(ListKeys)

NextList ==
    \/ NoInput
    \/ SnifferListKey
    \/ SnifferMouse
    \/ RecvAction
    \/ TickEvent
    \/ Render

SpecList == InitList /\ [][NextList]_vars

\* ------------------------------------------------------- the detail viewer
\* PacketDetailsPage::render_hex_viewer: the hex lines a terminal of the given
\* height has room for
HexVisibleLines(height) ==
    SatSub(height - DetailInfoRows - DetailHelpRows, HexChrome)

\* the hex rows a record of the given byte length has
HexRowCount(length) == (length + BytesPerLine - 1) \div BytesPerLine

\* PacketDetailsPage::render_hex_viewer: the byte counts of the rows drawn
hex_rows(dt, height) ==
    LET length == Unwrap(dt.packet).length
        start_offset == dt.hex_scroll * BytesPerLine
        end_offset == Min(start_offset + HexVisibleLines(height) * BytesPerLine,
                          length)
        n == IF end_offset > start_offset
             THEN HexRowCount(end_offset - start_offset) ELSE 0
    IN  [k \in 1..n |->
            Min(start_offset + k * BytesPerLine, length)
              - (start_offset + (k - 1) * BytesPerLine)]

\* frames of three lengths, in the order a capture delivered them
DetailFrames == <<"f400", "f176", "f40">>

\* the records of a capture that delivered the given frames
Recorded(frames) == [i \in 1..Len(frames) |-> parse_packet(i, frames[i])]

\* the session page after start_capture, the frames, a tick and stop_capture
DetailSession(frames) ==
    LET started == start_capture_ok(set_device(SnifferDefault, "eth0"), 1, "ok")
    IN  stop_capture(receive_packets(started,
            [w \in WorkerIds |-> IF w = 1 THEN Recorded(frames) ELSE <<>>]))

\* that session with its last record selected, started again on 's' and
\* holding the first frame of the new capture
Restarted(frames) ==
    LET chosen == select_packet(DetailSession(frames), Len(frames) - 1)
        started == start_capture_ok(chosen, 1, "ok")
    IN  receive_packets(started,
            [w \in WorkerIds |-> IF w = 1 THEN Recorded(<<frames[1]>>) ELSE <<>>])

InitDetails ==
    \/ sniffer = DetailSession(DetailFrames) /\ ViewInit(Len(DetailFrames), FALSE)
    \/ sniffer = Restarted(DetailFrames) /\ ViewInit(1, TRUE)

\* the keys that choose and open a record, and the keys of the detail viewer
OpenKeys == {"Up", "Down", "Enter"}
ViewerKeys == {"q", "Up", "Down", "PageUp", "PageDown", "Home", "End"}
\* a key that chooses or opens a record
SnifferOpenKey == SnifferKeyIn(OpenKeys)

NextDetails ==
    \/ NoInput
    \/ SnifferOpenKey
    \/ \E x \in MouseCols, y \in MouseRows : SnifferClick(x, y)
    \/ DetailsKeyIn(ViewerKeys)
    \/ RecvAction
    \/ TickEvent
    \/ Render

SpecDetails == InitDetails /\ [][NextDetails]_vars

\* ------------------------------------------------- the filter text editing
\* the session page of a stopped session with the filter dialog just opened
\* on its text field
InitEdit ==
    /\ sniffer = ListSession(0, "f40", FALSE)
    /\ main_pc = "poll"
    /\ main_result = "running"
    /\ app = [should_quit |-> FALSE, current_page |-> "Sniffer"]
    /\ action_q = <<>>
    /\ home_page = HomePageNew
    /\ device_page = select_current_device(
                         load_devices(DevicePageDefault, <<"eth0", "lo">>))
    /\ filter_dialog = dialog_open(FilterDialogDefault)
    /\ details = DetailsDefault
    /\ stop_capture_flag = TRUE
    /\ workers = [w \in WorkerIds |-> NoWorker]
    /\ chan = [w \in WorkerIds |-> <<>>]

\* the keys handle_custom_input reacts to: a one-byte and a two-byte
\* character, the two deletions and the cursor moves
EditKeys ==
    AsciiChars \cup WideChars
        \cup {"Backspace", "Delete", "Left", "Right", "Home", "End"}
\* an editing key on the dialog's text field
EditKey == \E key \in EditKeys : DialogKeyStep(key, MaxEdit)

NextEdit ==
    \/ NoInput
    \/ EditKey
    \/ RecvAction
    \/ TickEvent
    \/ Render

SpecEdit == InitEdit /\ [][NextEdit]_vars

\* ------------------------------------------- a long list and a new capture
\* the session page with more packets than a page, the capture running or
\* stopped: the list can be scrolled and then emptied by 'c' or by a start
InitLong ==
    \E capturing \in BOOLEAN :
        /\ sniffer = ListSession(PageRows + 3, "f40", capturing)
        /\ ViewInit(PageRows + 3, capturing)

\* the session keys that empty the list, follow, move the selection or leave
ShrinkKeys == {"c", "d", "f", "Up", "End"}

NextLong ==
    \/ NoInput
    \/ KeyEsc
    \/ HomeKey
    \/ DeviceKeyIn(StableKeys)
    \/ DeviceEnter
    \/ DialogKey
    \/ SnifferKeyIn(ShrinkKeys)
    \/ StartCaptureOk
    \/ StopCaptureBegin
    \/ StopCaptureEnd
    \/ \E kind \in {"ScrollUp", "ScrollDown"} : SnifferWheel(kind)
    \/ RecvAction
    \/ TickEvent
    \/ Render
    \/ \E w \in WorkerIds : WorkerCheck(w)
    \/ \E w \in WorkerIds : WorkerTimeout(w)
    \/ \E w \in WorkerIds : WorkerFrame(w)

SpecLong == InitLong /\ [][NextLong]_vars

\* ------------------------------------- the device picker during a capture
\* three capture devices, as Device::list() returned them
ThreeDevices == <<"eth0", "lo", "wlan0">>

\* the session page with a capture running on eth0, picked from the three
InitDevices ==
    /\ sniffer = ListSession(1, "f40", TRUE)
    /\ main_pc = "poll"
    /\ main_result = "running"
    /\ app = [should_quit |-> FALSE, current_page |-> "Sniffer"]
    /\ action_q = <<>>
    /\ home_page = HomePageNew
    /\ device_page = select_current_device(
                         load_devices(DevicePageDefault, ThreeDevices))
    /\ filter_dialog = FilterDialogDefault
    /\ details = DetailsDefault
    /\ stop_capture_flag = FALSE
    /\ workers = [w \in WorkerIds |->
                    IF w = 1 THEN [pc |-> "check", packet_id |-> 1] ELSE NoWorker]
    /\ chan = [w \in WorkerIds |-> <<>>]

NextDevices ==
    \/ NoInput
    \/ HomeKey
    \/ DeviceKey
    \/ DeviceEnter
    \/ SnifferKeyIn({"d", "f"})
    \/ RecvAction
    \/ TickEvent
    \/ Render

SpecDevices == InitDevices /\ [][NextDevices]_vars

\* ------------------------------------------- clicks anywhere on the screen
\* rows of a 24-row terminal below the records: the bottom border of the
\* list, the status box and the help line
FarRows == {19, 21, 23}

\* the list view, with clicks on those rows as well
NextClicks ==
    \/ NextList
    \/ \E x \in MouseCols, y \in FarRows : SnifferClick(x, y)

SpecClicks == InitList /\ [][NextClicks]_vars

\* ================================================================ claims
\* main is inside stop_capture, blocked in handle.join()
Joining == main_pc \in {"join_s", "join_q", "join_a"}
\* the session is not capturing and no stop is in progress
Idle == ~sniffer.is_capturing /\ ~Joining
\* the packet list followed by what is queued for it on the channel
Pending == IF IsSome(sniffer.packet_rx) THEN chan[Unwrap(sniffer.packet_rx)]
                                        ELSE <<>>
Arrived == sniffer.packets \o Pending

\* C1: whenever stop_capture has returned (the session is not capturing and
\* main is not inside the join), no capture thread exists, running or ended:
\* the handle was taken and joined, and no channel holds or receives a record.
C1_StopJoinsWorker ==
    Idle => /\ Spawned = {}
            /\ sniffer.capture_thread_handle = None
            /\ sniffer.packet_rx = None
            /\ \A w \in WorkerIds : chan[w] = <<>>
\* C1 witness: a stop has returned after the worker had delivered a record
C1_Witness ==
    /\ Idle
    /\ sniffer.status_message.kind = "stopped"
    /\ sniffer.status_message.n > 0

\* C2: in every reachable state at most one capture thread is running.
C2_AtMostOneWorker == Cardinality(AliveWorkers) <= 1
\* C2 witness: 's' was pressed while capturing (main is in the join of that
\* stop) and exactly one worker is running
C2_Witness == main_pc = "join_s" /\ Cardinality(AliveWorkers) = 1

\* C3 (as claimed): every record of the packet list has sequence id index+1
\* (1-based, no gaps); with a 1-based sequence, packets[i].id = i.
C3_IdsAreIndexPlusOne ==
    \A i \in 1..Len(sniffer.packets) : sniffer.packets[i].id = i

\* C4: the packet list followed by the records still queued on its channel
\* carries consecutive production numbers, each once and in the order of
\* production, and while the worker runs the newest of them is the record the
\* worker produced last.
C4_ArrivalOrderKept ==
    /\ \A i \in 1..(Len(Arrived) - 1) : Arrived[i + 1].id = Arrived[i].id + 1
    /\ \A w \in AliveWorkers :
          (sniffer.packet_rx = Some(w) /\ Arrived # <<>>)
             => Arrived[Len(Arrived)].id = workers[w].packet_id
\* C4 witness: two records arrived in two different ticks while capturing
C4_Witness ==
    /\ sniffer.is_capturing
    /\ Len(sniffer.packets) = 2
    /\ sniffer.status_message.kind = "opening"
    /\ sniffer.status_message.n = 1

\* C5 (as claimed): no record is lost: whenever records leave the ingestion
\* channel they are appended to the packet list.
C5_NoRecordLost ==
    [][\A w \in WorkerIds :
          (chan[w] # <<>> /\ chan'[w] = <<>>)
             => sniffer'.packets = sniffer.packets \o chan[w]]_vars

\* C6 (as claimed): the selection is None or an index into the packet list.
C6_SelectionInRange ==
    \/ sniffer.selected_packet = None
    \/ Unwrap(sniffer.selected_packet) < Len(sniffer.packets)

\* C7 (as claimed): a failed start is not fatal: after start_capture has
\* failed (only then does the status line keep "Starting packet capture...")
\* main's loop is still running.
C7_FailedStartNotFatal ==
    sniffer.status_message.kind = "starting" => main_result = "running"

\* C8: a step in which start_capture fails leaves the session idle: not
\* capturing, no thread handle, no receiver, no thread spawned, and the packet
\* list as it was.
C8_FailedStartStaysIdle ==
    [][sniffer'.status_message.kind = "starting"
          => /\ ~sniffer'.is_capturing
             /\ sniffer'.capture_thread_handle = None
             /\ sniffer'.packet_rx = None
             /\ workers' = workers
             /\ chan' = chan
             /\ sniffer'.packets = sniffer.packets]_vars
\* C8 witness: a start failed in a session that holds packets
C8_Witness ==
    /\ sniffer.status_message.kind = "starting"
    /\ sniffer.packets # <<>>

\* C9: a step of start_capture in which the stored, non-empty filter is
\* rejected (the status line becomes "Filter error ... Capturing without
\* filter") ends with is_capturing true and the spawned worker running, its
\* handle and its channel's receiver held by the page.
C9_FilterRejectedStillStarts ==
    [][(sniffer'.status_message.kind = "filter_error"
        /\ sniffer.status_message.kind # "filter_error")
          => /\ IsSome(sniffer.current_filter)
             /\ Unwrap(sniffer.current_filter) # <<>>
             /\ sniffer'.is_capturing
             /\ IsSome(sniffer'.capture_thread_handle)
             /\ sniffer'.packet_rx = sniffer'.capture_thread_handle
             /\ workers'[Unwrap(sniffer'.capture_thread_handle)] = WorkerSpawned
             /\ workers[Unwrap(sniffer'.capture_thread_handle)] = NoWorker]_vars
\* C9 witness: capturing with the status line of the rejected filter, and the
\* worker has delivered a record
C9_Witness ==
    /\ sniffer.status_message.kind = "filter_error"
    /\ sniffer.is_capturing
    /\ sniffer.packets # <<>>

\* C10: a step in which start_capture succeeds (is_capturing turns true) ends
\* with an empty packet list and a zero count, exactly one worker running, that
\* worker about to number its first frame 1, and its channel empty.
C10_SuccessfulStartResets ==
    [][(~sniffer.is_capturing /\ sniffer'.is_capturing)
          => /\ sniffer'.packets = <<>>
             /\ sniffer'.packet_count = 0
             /\ Cardinality(AliveWorkers') = 1
             /\ IsSome(sniffer'.capture_thread_handle)
             /\ AliveWorkers' = {Unwrap(sniffer'.capture_thread_handle)}
             /\ NextPacketId(workers'[Unwrap(sniffer'.capture_thread_handle)].packet_id) = 1
             /\ chan'[Unwrap(sniffer'.packet_rx)] = <<>>]_vars
\* C10 witness: a capture has just started in a session whose earlier list
\* held a selected record
C10_Witness ==
    /\ sniffer.is_capturing
    /\ main_pc = "action"
    /\ sniffer.packets = <<>>
    /\ IsSome(sniffer.selected_packet)
    /\ \A w \in AliveWorkers : workers[w] = WorkerSpawned

\* the text carried by the ApplyFilter request at the head of the action queue
HeadFilter == Head(action_q).text
\* main dequeues an ApplyFilter request
DequeuesFilter ==
    /\ RecvAction
    /\ action_q # <<>>
    /\ Head(action_q).type = "ApplyFilter"
\* what SnifferPage::update stores for a filter text
Stored(text) == IF text = <<>> THEN None ELSE Some(text)

\* C11: a filter change never runs beside a capture and never starts one: in
\* the step that opens the filter dialog the session is not capturing and no
\* capture thread exists (key 'a' while capturing has stopped and joined the
\* worker first); the step that applies a dequeued ApplyFilter on the session
\* page stores the text in current_filter and leaves is_capturing and the
\* threads as they were; and is_capturing only ever becomes true in a step
\* where the session page handles the start key 's'.
C11_FilterChangeStopsNoRestart ==
    [][/\ (~filter_dialog.is_open /\ filter_dialog'.is_open)
            => (~sniffer'.is_capturing /\ Spawned' = {}
                /\ sniffer'.capture_thread_handle = None)
       /\ (DequeuesFilter /\ app.current_page = "Sniffer")
            => /\ sniffer'.current_filter = Stored(HeadFilter)
               /\ sniffer'.is_capturing = sniffer.is_capturing
               /\ workers' = workers
               /\ sniffer'.capture_thread_handle = sniffer.capture_thread_handle
       /\ (~sniffer.is_capturing /\ sniffer'.is_capturing)
            => (SnifferHasKeys /\ StartsCapture(sniffer, "s"))]_vars
\* a filter has been applied after a capture that delivered packets, and the
\* session is idle with no thread
C11_Witness ==
    /\ IsSome(sniffer.current_filter)
    /\ sniffer.status_message.kind = "filter_applied"
    /\ sniffer.packets # <<>>
    /\ Idle
    /\ Spawned = {}

\* C12: stop_capture invoked on a session that is not capturing is a no-op:
\* is_capturing, the thread handle, the channel receiver, the packet list and
\* the status message are what they were.
C12_StopIsNoOpWhenIdle == Idle => stop_capture(sniffer) = sniffer

\* the filter dialog is open on the session page and main is reading input
DialogHasFocus ==
    /\ Polling
    /\ app.current_page = "Sniffer"
    /\ filter_dialog.is_open

\* C13: while the filter dialog is open on the session page, no input event
\* (key or mouse) changes the list selection, the scroll offset, the follow
\* flag, the packet list, the capture state or the current page.
C13_DialogExclusiveFocus ==
    [][DialogHasFocus
         => /\ sniffer'.selected_packet = sniffer.selected_packet
            /\ sniffer'.scroll_position = sniffer.scroll_position
            /\ sniffer'.following = sniffer.following
            /\ sniffer'.packets = sniffer.packets
            /\ sniffer'.is_capturing = sniffer.is_capturing
            /\ app'.current_page = app.current_page]_vars

\* C14: an ApplyFilter request emitted by a confirmed dialog is applied to the
\* session when main dequeues it, whatever else was queued before it and
\* whichever page is current at that moment: after the step current_filter is
\* Some(text), or None for an empty text.
C14_ConfirmedFilterIsApplied ==
    [][DequeuesFilter => sniffer'.current_filter = Stored(HeadFilter)]_vars

\* C15: Esc pressed while the filter dialog is open on the session page
\* closes the dialog, leaves current_filter as it was and puts no request on
\* the action queue.
C15_EscClosesDialog ==
    [][(KeyEsc /\ app.current_page = "Sniffer" /\ filter_dialog.is_open)
         => /\ ~filter_dialog'.is_open
            /\ sniffer'.current_filter = sniffer.current_filter
            /\ action_q' = action_q]_vars

\* Enter is handled by the open dialog in preset mode
PresetConfirmed ==
    /\ DialogPresetKey
    /\ filter_dialog.mode = "PresetSelection"
    /\ ~filter_dialog'.is_open
\* the catalog entry of the highlighted preset
HighlightedPreset == get_filter_presets[filter_dialog.selected_preset + 1]

\* C16: confirming preset k sends ApplyFilter with the k-th catalog text, and
\* the session page, handling that request, sets current_filter to Some(text)
\* for a non-empty text and to None for the empty text of "Clear Filter".
C16_PresetResolvesToCatalogText ==
    [][/\ PresetConfirmed
            => action_q' = Append(action_q, ApplyFilter(HighlightedPreset.filter))
       /\ (DequeuesFilter /\ app.current_page = "Sniffer")
            => /\ HeadFilter # <<>> => sniffer'.current_filter = Some(HeadFilter)
               /\ HeadFilter = <<>> => sniffer'.current_filter = None]_vars
\* the "HTTP Traffic" preset has been confirmed and applied
C16_Witness ==
    /\ get_filter_presets[3].name = "HTTP Traffic"
    /\ filter_dialog.selected_preset = 2
    /\ ~filter_dialog.is_open
    /\ sniffer.status_message.kind = "filter_applied"
    /\ sniffer.current_filter =
          Some(AsciiText(<<"t","c","p"," ","p","o","r","t"," ","8","0"," ",
                           "o","r"," ","t","c","p"," ","p","o","r","t"," ",
                           "8","0","8","0">>))

\* C17: a Tick handled by the session page while capturing moves every
\* record queued on the channel to the end of the packet list and leaves the
\* channel empty; from an empty list, n queued records give a list of n.
C17_TickDrainsChannel ==
    [][(TickEvent /\ app.current_page = "Sniffer" /\ sniffer.is_capturing)
         => /\ sniffer'.packets = sniffer.packets \o Pending
            /\ sniffer'.packet_count = sniffer.packet_count + Len(Pending)
            /\ chan'[Unwrap(sniffer.packet_rx)] = <<>>
            /\ (sniffer.packets = <<>> => Len(sniffer'.packets) = Len(Pending))]_vars
\* a tick has just drained two records of a running capture
C17_Witness ==
    /\ main_pc = "draw"
    /\ app.current_page = "Sniffer"
    /\ sniffer.is_capturing
    /\ Len(sniffer.packets) = 2
    /\ sniffer.packet_count = 2
    /\ Pending = <<>>

\* C18: the ids in the packet list are strictly increasing with the index.
C18_IdsStrictlyIncreasing ==
    \A i, j \in 1..Len(sniffer.packets) :
        i < j => sniffer.packets[i].id < sniffer.packets[j].id
\* two records of one capture are listed and the capture has been stopped
C18_Witness ==
    /\ Len(sniffer.packets) = 2
    /\ sniffer.status_message.kind = "stopped"
    /\ Idle

\* C19: is_capturing is true only while the session holds the handle of a
\* capture thread that is alive (spawned, not returned, not joined).
C19_CapturingImpliesLiveWorker ==
    sniffer.is_capturing
        => /\ IsSome(sniffer.capture_thread_handle)
           /\ Alive(Unwrap(sniffer.capture_thread_handle))
\* C20: stop_capture terminates: whenever main is blocked in the join of
\* stop_capture, with the stop flag stored, the worker leaves its loop and the
\* join returns, provided the thread is scheduled and every timed read
\* returns.
C20_StopTerminates == Joining ~> ~Joining
\* stop was requested (key 'q') while the worker was inside a timed read
C20_Witness ==
    /\ main_pc = "join_q"
    /\ stop_capture_flag
    /\ \E w \in WorkerIds : workers[w].pc = "read"

\* C21: with more packets than the 20 rows of a page, selecting the last
\* packet by keyboard (End) leaves scroll_position at len - 20, the last full
\* page, whatever it was before.
C21_EndShowsLastFullPage ==
    [][(SnifferKeyStep("End") /\ Len(sniffer.packets) > PageRows)
         => /\ sniffer'.selected_packet = Some(Len(sniffer.packets) - 1)
            /\ sniffer'.scroll_position = Len(sniffer.packets) - PageRows]_vars

\* the record rows render_packet_list draws in a terminal of the given height
VisibleRows(height) == SatSub(height - BelowList, ListChrome)

\* SnifferPage::render_packet_list: the records drawn in a list area of a
\* terminal of the given height, each with its index in the list and whether
\* it is drawn highlighted (i is the index enumerate() gave before skip())
render_packet_list(sn, height) ==
    LET visible_start == sn.scroll_position
        visible_end == Min(visible_start + VisibleRows(height), Len(sn.packets))
    IN  [j \in 1..(visible_end - visible_start) |->
            LET i == visible_start + j - 1
            IN  [index |-> i,
                 is_selected |-> sn.selected_packet = Some(visible_start + i)]]
\* the step changes the selection
SelectionChanges == sniffer'.selected_packet # sniffer.selected_packet

\* C22: after every step that changes the selection to some row (Up, Down,
\* Home, End or a click), that row lies inside the window the next render
\* draws: scroll_position <= selection < scroll_position + visible rows, for
\* every terminal height.
C22_SelectionVisible ==
    [][(SelectionChanges /\ IsSome(sniffer'.selected_packet))
         => \A height \in TermHeights :
               /\ sniffer'.scroll_position <= Unwrap(sniffer'.selected_packet)
               /\ Unwrap(sniffer'.selected_packet)
                     < sniffer'.scroll_position + VisibleRows(height)]_vars

\* the session page has packets and a selection inside the list
ValidSelection ==
    /\ sniffer.packets # <<>>
    /\ IsSome(sniffer.selected_packet)
    /\ Unwrap(sniffer.selected_packet) < Len(sniffer.packets)
\* the index of the last packet
LastIndex == Len(sniffer.packets) - 1

\* C23: on a non-empty list, Up moves a valid selection i to max(i-1, 0) and
\* Down moves it to min(i+1, len-1); without a selection Down selects index
\* 0; Home selects index 0 and End selects index len-1.
C23_KeysMoveSelection ==
    [][/\ (SnifferKeyStep("Up") /\ ValidSelection)
            => sniffer'.selected_packet =
                  Some(SatSub(Unwrap(sniffer.selected_packet), 1))
       /\ (SnifferKeyStep("Down") /\ ValidSelection)
            => sniffer'.selected_packet =
                  Some(Min(Unwrap(sniffer.selected_packet) + 1, LastIndex))
       /\ (SnifferKeyStep("Down") /\ sniffer.packets # <<>>
             /\ sniffer.selected_packet = None)
            => sniffer'.selected_packet = Some(0)
       /\ (SnifferKeyStep("Home") /\ sniffer.packets # <<>>)
            => sniffer'.selected_packet = Some(0)
       /\ (SnifferKeyStep("End") /\ sniffer.packets # <<>>)
            => sniffer'.selected_packet = Some(LastIndex)]_vars
\* Down has moved the selection off the first page of a long list
C23_Witness ==
    /\ Len(sniffer.packets) = MaxList
    /\ sniffer.selected_packet = Some(PageRows)
    /\ sniffer.scroll_position = 1

\* the list has packets and none is selected
NoSelection == sniffer.packets # <<>> /\ sniffer.selected_packet = None

\* C24: with packets in the list and no selection, Up and Down move
\* scroll_position by one row (Up towards 0, Down towards the end) and the
\* selection stays None.
C24_KeysScrollWithoutSelection ==
    [][/\ (SnifferKeyStep("Up") /\ NoSelection)
            => /\ sniffer'.selected_packet = None
               /\ sniffer'.scroll_position = SatSub(sniffer.scroll_position, 1)
       /\ (SnifferKeyStep("Down") /\ NoSelection)
            => /\ sniffer'.selected_packet = None
               /\ sniffer'.scroll_position
                     \in {sniffer.scroll_position, sniffer.scroll_position + 1}]_vars

\* the position (x, y) is on a record row that the list shows
OnRecordRow(x, y) ==
    /\ x > 0
    /\ x < TermWidth - 1
    /\ y >= 2
    /\ \E height \in TermHeights : y - 2 < VisibleRows(height)
    /\ sniffer.scroll_position + (y - 2) < Len(sniffer.packets)
\* the index of the record shown on screen row y
RowIndex(y) == sniffer.scroll_position + (y - 2)

\* C25: a left click on a shown record row selects that record and sends
\* nothing when the record was not selected; on the row of the selected record
\* it leaves the page as it is and sends PacketSelected with that index, the
\* request Enter returns for the same selection.
C25_ClickSelectsThenActivates ==
    [][\A x \in MouseCols, y \in MouseRows :
          (SnifferClick(x, y) /\ OnRecordRow(x, y))
             => IF sniffer.selected_packet = Some(RowIndex(y))
                THEN /\ sniffer' = sniffer
                     /\ action_q' = Append(action_q, PacketSelected(RowIndex(y)))
                     /\ sniffer_key_action(sniffer, "Enter")
                           = Some(PacketSelected(RowIndex(y)))
                ELSE /\ sniffer'.selected_packet = Some(RowIndex(y))
                     /\ action_q' = action_q]_vars
\* C26: a scroll-wheel event moves scroll_position by 3 rows, up to 0 at the
\* top, or leaves it, and afterwards scroll_position is at most
\* max(0, len - 20): the window never goes past the last full page.
C26_WheelStaysOnLastPage ==
    [][\A kind \in {"ScrollUp", "ScrollDown"} :
          SnifferWheel(kind)
             => /\ sniffer'.scroll_position
                      \in {sniffer.scroll_position,
                           SatSub(sniffer.scroll_position, WheelStep),
                           sniffer.scroll_position + WheelStep}
                /\ sniffer'.scroll_position
                      <= SatSub(Len(sniffer.packets), PageRows)]_vars

\* C27: every render of the session page with follow mode on and a capture
\* running sets scroll_position to max(0, len - visible rows), wherever the
\* keys, the mouse and the wheel had left it and whatever is selected;
\* switching follow mode off changes the flag and nothing else.
C27_FollowPinsWindowToEnd ==
    [][/\ (Render /\ app.current_page = "Sniffer" /\ sniffer.following
             /\ sniffer.is_capturing)
            => \E height \in TermHeights :
                  sniffer' = [sniffer EXCEPT !.scroll_position =
                                 SatSub(Len(sniffer.packets), VisibleRows(height))]
       /\ (SnifferKeyStep("f") /\ sniffer.following)
            => sniffer' = [sniffer EXCEPT !.following = FALSE]]_vars
\* a render has just put the window at the end of a long list of a running
\* capture although the first packet is selected
C27_Witness ==
    /\ main_pc = "poll"
    /\ sniffer.following
    /\ sniffer.is_capturing
    /\ Len(sniffer.packets) = MaxList
    /\ sniffer.selected_packet = Some(0)
    /\ \E height \in TermHeights :
          sniffer.scroll_position = MaxList - VisibleRows(height)

\* the detail viewer is open on a record
Viewing == app.current_page = "PacketDetails" /\ IsSome(details.packet)
\* the bound the hex viewer's scrolling is said to keep: the hex rows of the
\* record that do not fit the lines drawn
HexBound(height) ==
    SatSub(HexRowCount(Unwrap(details.packet).length), HexVisibleLines(height))

\* C28: whatever keys were pressed on the detail viewer, hex_scroll stays
\* within 0 .. max(0, ceil(byte_length / 16) - visible_lines), visible_lines
\* being the hex lines drawn; End puts it exactly on that bound.
C28_HexScrollWithinRenderedBound ==
    Viewing => \A height \in TermHeights :
                  /\ details.hex_scroll >= 0
                  /\ details.hex_scroll <= HexBound(height)

\* C29: when all the hex rows of the record fit the lines drawn, every scroll
\* key, End included, leaves hex_scroll at 0; a 40-byte record is drawn as
\* three rows of 16, 16 and 8 bytes.
C29_NoScrollWhenAllRowsFit ==
    Viewing =>
        \A height \in TermHeights :
            /\ HexRowCount(Unwrap(details.packet).length) <= HexVisibleLines(height)
                 => details.hex_scroll = 0
            /\ Unwrap(details.packet).length = FrameLen("f40")
                 => hex_rows(details, height) = <<16, 16, 8>>

\* a step that handles a request to open the record at the given index: the
\* request is taken from the queue, or Enter returns it
HandlesPacketSelected(index) ==
    \/ RecvAction /\ action_q # <<>> /\ Head(action_q) = PacketSelected(index)
    \/ SnifferKeyStep("Enter") /\ sniffer.selected_packet = Some(index)

\* C30: handling PacketSelected(index) with index < len(packets) opens the
\* detail viewer on packets[index] with hex_scroll 0, whatever record and
\* scroll position the viewer held; with index >= len(packets) nothing is
\* opened and the page stays.
C30_SelectionOpensRecordAtTop ==
    [][\A index \in 0..MaxList :
          HandlesPacketSelected(index) =>
              IF index < Len(sniffer.packets)
              THEN /\ app'.current_page = "PacketDetails"
                   /\ details' = [packet |-> Some(sniffer.packets[index + 1]),
                                  hex_scroll |-> 0]
              ELSE /\ app' = app
                   /\ details' = details]_vars
\* a click on the selected second record was taken from the queue and opened
\* it, the first record having been viewed before
C30_Witness ==
    /\ main_pc = "tick"
    /\ app.current_page = "PacketDetails"
    /\ Len(sniffer.packets) = Len(DetailFrames)
    /\ sniffer.selected_packet = Some(1)
    /\ details = [packet |-> Some(sniffer.packets[2]), hex_scroll |-> 0]

\* C31: whatever editing keys were pressed on the dialog's text field, the
\* cursor is a valid insertion point of the text: it is at most the byte
\* length of filter_text and it lies on a character boundary.
C31_CursorOnCharBoundary ==
    filter_dialog.is_open =>
        /\ filter_dialog.cursor_position >= 0
        /\ filter_dialog.cursor_position <= Len(filter_dialog.filter_text)
        /\ IsCharBoundary(filter_dialog.filter_text, filter_dialog.cursor_position)

\* a step that handles a request to open a record, whatever its index
HandlesSelection ==
    \/ RecvAction /\ action_q # <<>> /\ Head(action_q).type = "PacketSelected"
    \/ SnifferKeyStep("Enter") /\ IsSome(sniffer.selected_packet)

\* C32: the record held by the detail viewer, its bytes included, is changed
\* by no step of the session (clearing the list, starting or stopping a
\* capture, records arriving) other than the selection of a record.
C32_ViewerKeepsItsRecord ==
    [][(IsSome(details.packet) /\ ~HandlesSelection)
         => details'.packet = details.packet]_vars
\* a record was opened, and a new capture has since emptied the list
C32_Witness ==
    /\ IsSome(details.packet)
    /\ app.current_page = "Sniffer"
    /\ sniffer.is_capturing
    /\ sniffer.packets = <<>>

\* C33: the worker tests the stop flag once per turn of its loop, before the
\* timed read: once the flag is set it stays set while the worker lives, a
\* worker that tests it leaves without reading again, and a worker that was
\* already reading is back at the test after the one record it may still
\* send; so at most one record is sent after the flag was set.
C33_AtMostOneRecordAfterStop ==
    [][\A w \in WorkerIds :
          (stop_capture_flag /\ Alive(w)) =>
              /\ stop_capture_flag'
              /\ workers[w].pc = "check" => workers'[w] \in {workers[w], WorkerDone}
              /\ Len(chan'[w]) > Len(chan[w])
                   => /\ workers[w].pc = "read"
                      /\ workers'[w].pc = "check"
                      /\ Len(chan'[w]) = Len(chan[w]) + 1]_vars
\* main waits in the join of stop_capture with the flag set, and the worker,
\* that was reading, has sent a record and is back at the test of the flag
C33_Witness ==
    /\ Joining
    /\ stop_capture_flag
    /\ \E w \in WorkerIds :
          /\ workers[w].pc = "check"
          /\ workers[w].packet_id = MaxFrames
          /\ Len(chan[w]) = 1
          /\ chan[w][1].id = MaxFrames

\* the session page is about to be drawn
DrawsList == main_result = "running" /\ main_pc = "draw"
                /\ app.current_page = "Sniffer"

\* C34: whenever the list is drawn, scroll_position <= len(packets), so
\* visible_end - visible_start in render_packet_list does not underflow:
\* what empties the list ('c', a new start) also resets scroll_position.
C34_WindowStartsInsideList ==
    DrawsList =>
        /\ sniffer.scroll_position <= Len(sniffer.packets)
        /\ \A height \in TermHeights :
              Min(sniffer.scroll_position + VisibleRows(height),
                  Len(sniffer.packets)) >= sniffer.scroll_position
\* the list of a new capture is drawn, empty, with the window at 0, after
\* the last packet of the long list before had been selected
C34_Witness ==
    /\ DrawsList
    /\ sniffer.is_capturing
    /\ sniffer.packets = <<>>
    /\ sniffer.scroll_position = 0
    /\ sniffer.selected_packet = Some(PageRows + 2)

\* C35: whatever the scroll offset, the record the list draws highlighted is
\* the selected one: a drawn record with index k in the list is highlighted
\* exactly when selected_packet = Some(k).
C35_HighlightIsSelection ==
    DrawsList =>
        \A height \in TermHeights :
            \A j \in DOMAIN render_packet_list(sniffer, height) :
                LET row == render_packet_list(sniffer, height)[j]
                IN  row.is_selected <=> sniffer.selected_packet = Some(row.index)

\* C36: the session page is never left for Home with a capture running: in
\* every state in which the current page is Home, is_capturing is false and
\* no capture worker is alive, whether 'q' or Esc led there.
C36_NoCaptureOnHome ==
    app.current_page = "Home" =>
        /\ ~sniffer.is_capturing
        /\ AliveWorkers = {}

\* a step that confirms the highlighted row k of the device picker: Enter, or
\* the draw that handles a click on the row that is already highlighted
ConfirmsRow(k) ==
    /\ app.current_page = "Device"
    /\ device_page.list_state = Some(k)
    /\ k >= 1
    /\ k <= Len(device_page.devices)
    /\ \/ DeviceEnter
       \/ /\ Render
          /\ \E height \in TermHeights :
                device_render_click(device_page, height) = Some(k - 1)

\* C37: confirming the highlighted row k of the device picker, 1 <= k <= n,
\* does not fail, sends DeviceSelected with the name of the k-th device and
\* names that device in the status message, the last row included.
C37_ConfirmSelectsHighlightedDevice ==
    [][\A k \in 1..Len(device_page.devices) :
          ConfirmsRow(k) =>
              /\ main_result' = "running"
              /\ action_q' = Append(action_q,
                                    DeviceSelected(device_page.devices[k]))
              /\ device_page'.status_message =
                    Status("selected", device_page.devices[k], 0, <<>>)]_vars

\* C38: while a capture is running, device_name stays the device the worker
\* was opened on: no step taken with is_capturing true before and after it
\* changes device_name.
C38_DeviceFixedWhileCapturing ==
    [][(sniffer.is_capturing /\ sniffer'.is_capturing)
         => sniffer'.device_name = sniffer.device_name]_vars

\* only the worker whose channel the session holds is running or has records
\* queued
OnlyCurrentWorker ==
    \A w \in WorkerIds :
        (Alive(w) \/ chan[w] # <<>>) => sniffer.packet_rx = Some(w)
\* the records listed and queued are the last ones the running worker
\* numbered, in its order
FromCurrentWorker ==
    \A w \in WorkerIds :
        (sniffer.packet_rx = Some(w) /\ Alive(w)) =>
            \A i \in 1..Len(Arrived) :
                Arrived[i].id = workers[w].packet_id - Len(Arrived) + i

\* C39: after a stop and a new start the packet list only receives records of
\* the worker of the new capture: a start finds no earlier worker and leaves
\* the list and every channel empty, only the current worker ever runs or has
\* records queued, and what is listed and queued is what that worker sent.
C39_OnlyCurrentWorkerFeedsList ==
    /\ [](OnlyCurrentWorker /\ FromCurrentWorker)
    /\ [][StartCaptureOk => /\ Spawned = {}
                            /\ sniffer'.packets = <<>>
                            /\ \A w \in WorkerIds : chan'[w] = <<>>]_vars
\* a second capture is running and has listed its first record: the selection
\* still points at the second record of the capture before
C39_Witness ==
    /\ sniffer.is_capturing
    /\ Len(sniffer.packets) = 1
    /\ sniffer.packets[1].id = 1
    /\ sniffer.selected_packet = Some(1)

\* screen row y is one of the record rows the list draws, and shows a record
RowShowsRecord(y) ==
    /\ y >= 2
    /\ \A height \in TermHeights : y - 2 < VisibleRows(height)
    /\ sniffer.scroll_position + (y - 2) < Len(sniffer.packets)

\* C40: a left click on a row that is not a drawn record row (the border
\* below the list, the status box, the help line, a row past the last record)
\* changes no selection and sends no PacketSelected.
C40_ClickOffTheListDoesNothing ==
    [][\A x \in MouseCols, y \in MouseRows \cup FarRows :
          (SnifferClick(x, y) /\ ~RowShowsRecord(y))
              => /\ sniffer'.selected_packet = sniffer.selected_packet
                 /\ action_q' = action_q]_vars

====
